---- MODULE Spec2Model ----
(***************************************************************************)
(* A model of the request/response pipeline of the HTTP server:            *)
(*   request.rs    parse_request                                           *)
(*   route.rs      handle_request and the route handlers                   *)
(*   middleware.rs handle_middlewares (version, connection, compression)   *)
(*   main.rs       Response::compress, handle_response, handle_connection  *)
(*                                                                         *)
(* Text is modelled byte by byte: a string or a byte vector is a sequence  *)
(* of one-character strings, so trimming, splitting, lower-casing and      *)
(* substring search are computed the way the code computes them.           *)
(* An Option<T> is a sequence of length 0 (None) or 1 (Some).              *)
(***************************************************************************)
EXTENDS Integers, Sequences, FiniteSets, TLC

\* ------------------------------------------------------------------------
\* Text primitives (the std string operations the source calls)
\* ------------------------------------------------------------------------

\* White space removed by str::trim (the ASCII part of it).
WS == {" ", "\t", "\n", "\r"}

UpperChars == <<"A", "B", "C", "D", "E", "F", "G", "H", "I", "J", "K", "L", "M",
                "N", "O", "P", "Q", "R", "S", "T", "U", "V", "W", "X", "Y", "Z">>

LowerChars == <<"a", "b", "c", "d", "e", "f", "g", "h", "i", "j", "k", "l", "m",
                "n", "o", "p", "q", "r", "s", "t", "u", "v", "w", "x", "y", "z">>

DigitChars == <<"0", "1", "2", "3", "4", "5", "6", "7", "8", "9">>

MinOf(S) == CHOOSE i \in S : \A j \in S : i <= j

MaxOf(S) == CHOOSE i \in S : \A j \in S : j <= i

\* str::trim: both ends stripped of white space.
trim(s) ==
    LET keep == {i \in 1..Len(s) : s[i] \notin WS}
    IN  IF keep = {} THEN <<>> ELSE SubSeq(s, MinOf(keep), MaxOf(keep))

\* pat occurs in s at index i.
MatchAt(s, pat, i) ==
    /\ i >= 1
    /\ i + Len(pat) - 1 <= Len(s)
    /\ \A k \in 1..Len(pat) : s[i + k - 1] = pat[k]

\* str::find: the index of the first occurrence of pat in s, 0 when there is none.
find(s, pat) ==
    LET hits == {i \in 1..(Len(s) + 1) : MatchAt(s, pat, i)}
    IN  IF hits = {} THEN 0 ELSE MinOf(hits)

\* str::contains
contains(s, pat) == find(s, pat) # 0

\* str::starts_with
starts_with(s, pat) == MatchAt(s, pat, 1)

\* s from index i (1-based) to its end: &s[i-1..] of the source.
DropFirst(s, n) == SubSeq(s, n + 1, Len(s))

\* str::split(sep) collected: the parts between the occurrences of sep
\* (always at least one part; adjacent separators give empty parts).
RECURSIVE split(_, _)
split(s, sep) ==
    LET i == find(s, sep)
    IN  IF i = 0
        THEN <<s>>
        ELSE <<SubSeq(s, 1, i - 1)>> \o split(DropFirst(s, i + Len(sep) - 1), sep)

LowerChar(ch) ==
    IF \E i \in 1..26 : UpperChars[i] = ch
    THEN LowerChars[CHOOSE i \in 1..26 : UpperChars[i] = ch]
    ELSE ch

\* str::to_lowercase
to_lowercase(s) == [i \in 1..Len(s) |-> LowerChar(s[i])]

IsDigit(ch) == \E i \in 1..10 : DigitChars[i] = ch

DigitVal(ch) == (CHOOSE i \in 1..10 : DigitChars[i] = ch) - 1

RECURSIVE DigitsValue(_)
DigitsValue(s) ==
    IF s = <<>> THEN 0
    ELSE 10 * DigitsValue(SubSeq(s, 1, Len(s) - 1)) + DigitVal(s[Len(s)])

\* str::parse::<usize>: Some(n) for an optional '+' followed by one or more
\* decimal digits, None otherwise.
parse_usize(s) ==
    LET d == IF s # <<>> /\ s[1] = "+" THEN Tail(s) ELSE s
    IN  IF d # <<>> /\ \A i \in 1..Len(d) : IsDigit(d[i])
        THEN <<DigitsValue(d)>>
        ELSE <<>>

\* format!("{n}") of a usize.
RECURSIVE to_string(_)
to_string(n) ==
    IF n < 10 THEN <<DigitChars[n + 1]>>
    ELSE to_string(n \div 10) \o <<DigitChars[(n % 10) + 1]>>

\* Option::unwrap_or
unwrap_or(opt, dflt) == IF opt = <<>> THEN dflt ELSE opt[1]

\* ------------------------------------------------------------------------
\* HashMap<String, String>
\* ------------------------------------------------------------------------

EmptyHeaders == [k \in {} |-> <<>>]

\* insert that keeps the value already stored under the key.
insert_first_wins(h, key, value) ==
    [k \in (DOMAIN h) \cup {key} |-> IF k \in DOMAIN h THEN h[k] ELSE value]

\* HashMap::insert: a later value for the same key replaces the earlier one.
insert(h, key, value) ==
    [k \in (DOMAIN h) \cup {key} |-> IF k = key THEN value ELSE h[k]]

\* HashMap::get
get(h, key) == IF key \in DOMAIN h THEN <<h[key]>> ELSE <<>>

\* ------------------------------------------------------------------------
\* request.rs: Request and parse_request
\* ------------------------------------------------------------------------

\* Request::new
Request(method, path, version, headers, body, persistent) ==
    [method |-> method, path |-> path, version |-> version,
     headers |-> headers, body |-> body, persistent |-> persistent]

\* The request slot of a parse outcome that carries no request.
NoRequest == Request(<<>>, <<>>, <<>>, EmptyHeaders, <<>>, FALSE)

\* Request::is_persistent
is_persistent(request) == request.persistent

\* The outcome of one parse_request call on the bytes `used` of its reader:
\*   "Request" = Ok(Some(req)), "None" = Ok(None), "Err" = Err(err),
\*   "Blocked" = the call is inside a blocking read, waiting for more bytes.
Outcome(kind, err, req, used) == [kind |-> kind, err |-> err, req |-> req, used |-> used]

Blocked == Outcome("Blocked", "", NoRequest, 0)

\* BufRead::read_line on the unread bytes `rest`: the number of bytes of the
\* line it returns (through the first "\n"; at end of stream whatever is
\* left, possibly 0), or -1 while the line is incomplete and the stream open.
read_line(rest, eof) ==
    LET i == find(rest, <<"\n">>)
    IN  IF i # 0 THEN i ELSE IF eof THEN Len(rest) ELSE -1

HdrSep == <<":", " ">>

\* The header loop: lines are read until a blank line or the end of the
\* stream; each is split on ": ", its key lower-cased, and inserted.
RECURSIVE read_headers(_, _, _, _)
read_headers(buf, pos, eof, headers) ==
    LET rest == DropFirst(buf, pos)
        n == read_line(rest, eof)
        header_part == trim(SubSeq(rest, 1, n))
        header_parts == split(header_part, HdrSep)
    IN  IF n = -1 THEN [kind |-> "Blocked", err |-> "", headers |-> headers, pos |-> pos]
        ELSE IF n = 0 THEN [kind |-> "Ok", err |-> "", headers |-> headers, pos |-> pos]
        ELSE IF header_part = <<>>
             THEN [kind |-> "Ok", err |-> "", headers |-> headers, pos |-> pos + n]
        ELSE IF Len(header_parts) < 1
             THEN [kind |-> "Err", err |-> "InvalidHeader", headers |-> headers, pos |-> pos + n]
        ELSE IF Len(header_parts) < 2
             THEN [kind |-> "Err", err |-> "InvalidHeader", headers |-> headers, pos |-> pos + n]
        ELSE read_headers(buf, pos + n, eof,
                          insert(headers, to_lowercase(header_parts[1]), header_parts[2]))

KeyConnection == <<"c", "o", "n", "n", "e", "c", "t", "i", "o", "n">>

KeyContentLength == <<"c", "o", "n", "t", "e", "n", "t", "-", "l", "e", "n", "g", "t", "h">>

ValClose == <<"c", "l", "o", "s", "e">>

Ver11 == <<"1", ".", "1">>

\* let connexion_close = matches!(headers.get("connection"), Some(v) if v == "close")
connexion_close(headers) == get(headers, KeyConnection) = <<ValClose>>

\* headers.get("content-length").unwrap_or("0").parse::<usize>().unwrap_or(0)
content_length(headers) ==
    unwrap_or(parse_usize(unwrap_or(get(headers, KeyContentLength), <<"0">>)), 0)

\* persistent without the connection header: let persistent = version.contains("1.1")
persistent_version_only(version, headers) == contains(version, Ver11)

\* let persistent = version.contains("1.1") && !connexion_close
persistent(version, headers) == contains(version, Ver11) /\ ~connexion_close(headers)

\* read_body with a plain read in place of read_exact: at the end of the
\* stream the body is whatever arrived.
read_body_short(buf, pos, eof, method, path, version, headers) ==
    LET n == content_length(headers)
        avail == Len(buf) - pos
    IN  IF n = 0
        THEN Outcome("Request", "",
                     Request(method, path, version, headers, <<>>,
                             persistent(version, headers)), pos)
        ELSE IF avail >= n
        THEN Outcome("Request", "",
                     Request(method, path, version, headers,
                             SubSeq(buf, pos + 1, pos + n),
                             persistent(version, headers)), pos + n)
        ELSE IF eof
        THEN Outcome("Request", "",
                     Request(method, path, version, headers,
                             SubSeq(buf, pos + 1, Len(buf)),
                             persistent(version, headers)), Len(buf))
        ELSE Blocked

\* The body and the end of parse_request, once the headers are read.
read_body(buf, pos, eof, method, path, version, headers) ==
    LET n == content_length(headers)
        avail == Len(buf) - pos
    IN  IF n = 0
        THEN Outcome("Request", "",
                     Request(method, path, version, headers, <<>>,
                             persistent(version, headers)), pos)
        ELSE IF avail >= n
        THEN Outcome("Request", "",
                     Request(method, path, version, headers,
                             SubSeq(buf, pos + 1, pos + n),
                             persistent(version, headers)), pos + n)
        ELSE IF eof THEN Outcome("Err", "IoErr", NoRequest, Len(buf))
        ELSE Blocked

\* parse_request with the start line split by split_whitespace: runs of
\* spaces count once, so no token is empty.
parse_request_split_whitespace(buf, eof) ==
    LET n == read_line(buf, eof)
        start_line_part == trim(SubSeq(buf, 1, n))
        start_line == SelectSeq(split(start_line_part, <<" ">>), LAMBDA t : t # <<>>)
        hdrs == read_headers(buf, n, eof, EmptyHeaders)
    IN  IF n = -1 THEN Blocked
        ELSE IF n = 0 THEN Outcome("Err", "ConnectionClosed", NoRequest, 0)
        ELSE IF start_line_part = <<>> THEN Outcome("None", "", NoRequest, n)
        ELSE IF Len(start_line) < 1 THEN Outcome("Err", "MissingMethod", NoRequest, n)
        ELSE IF Len(start_line) < 2 THEN Outcome("Err", "MissingPath", NoRequest, n)
        ELSE IF Len(start_line) < 3 THEN Outcome("Err", "MissingVersion", NoRequest, n)
        ELSE IF hdrs.kind = "Blocked" THEN Blocked
        ELSE IF hdrs.kind = "Err" THEN Outcome("Err", hdrs.err, NoRequest, hdrs.pos)
        ELSE read_body(buf, hdrs.pos, eof, start_line[1], start_line[2], start_line[3],
                       hdrs.headers)

\* parse_request on `buf`, the bytes its BufReader has taken from the socket
\* since the call began, `eof` telling whether the last read returned 0 bytes.
parse_request(buf, eof) ==
    LET n == read_line(buf, eof)
        start_line_part == trim(SubSeq(buf, 1, n))
        start_line == split(start_line_part, <<" ">>)
        hdrs == read_headers(buf, n, eof, EmptyHeaders)
    IN  IF n = -1 THEN Blocked
        ELSE IF n = 0 THEN Outcome("Err", "ConnectionClosed", NoRequest, 0)
        ELSE IF start_line_part = <<>> THEN Outcome("None", "", NoRequest, n)
        ELSE IF Len(start_line) < 1 THEN Outcome("Err", "MissingMethod", NoRequest, n)
        ELSE IF Len(start_line) < 2 THEN Outcome("Err", "MissingPath", NoRequest, n)
        ELSE IF Len(start_line) < 3 THEN Outcome("Err", "MissingVersion", NoRequest, n)
        ELSE IF hdrs.kind = "Blocked" THEN Blocked
        ELSE IF hdrs.kind = "Err" THEN Outcome("Err", hdrs.err, NoRequest, hdrs.pos)
        ELSE read_body(buf, hdrs.pos, eof, start_line[1], start_line[2], start_line[3],
                       hdrs.headers)

\* ------------------------------------------------------------------------
\* main.rs: HttpCode, Response, Response::compress
\* ------------------------------------------------------------------------

HttpCode == {"Ok", "NotFound", "InternalServerError", "BadRequest", "Created"}

VerDefault == <<"H", "T", "T", "P", "/", "1", ".", "1">>

TextPlain == <<"t", "e", "x", "t", "/", "p", "l", "a", "i", "n">>

\* impl Default for Response
ResponseDefault ==
    [status |-> "Ok", version |-> VerDefault, content_type |-> TextPlain,
     content_encoding |-> <<>>, connection |-> <<>>, content |-> <<>>]

Gzip == <<"g", "z", "i", "p">>

Deflate == <<"d", "e", "f", "l", "a", "t", "e">>

\* The raw DEFLATE stream flate2 writes for a short input without repeated
\* substrings: one final fixed-Huffman block, i.e. 3 header bits, one 8-bit
\* code per literal and the 7-bit end-of-block code, Len(content) + 2 bytes
\* in all. The model keeps that length and writes the stream symbol by
\* symbol: a block header, one literal code per input byte, the end of block.
DeflateStream(content) ==
    <<"BFINAL|FIXED">> \o [i \in 1..Len(content) |-> "L" \o content[i]] \o <<"EOB">>

\* The 10-byte gzip member header GzEncoder writes (no name, no mtime).
GzHeader == <<"1f", "8b", "08", "00", "00", "00", "00", "00", "00", "ff">>

\* The 8-byte gzip trailer: CRC-32 of the input, then its length (ISIZE).
GzTrailer(content) ==
    <<"crc0", "crc1", "crc2", "crc3">> \o to_string(Len(content) % 256) \o <<"00", "00", "00">>

\* Result<Vec<u8>>
Ok(bytes) == [ok |-> TRUE, val |-> bytes]

Err(text) == [ok |-> FALSE, val |-> text]

\* The Display text of the encoder's io::Error.
EncoderErrorText == <<"i", "o">>

\* compress_gzip; encOk tells whether the encoder's write_all and finish succeed.
compress_gzip(content, encOk) ==
    IF encOk THEN Ok(GzHeader \o DeflateStream(content) \o GzTrailer(content))
    ELSE Err(EncoderErrorText)

\* compress_deflate
compress_deflate(content, encOk) ==
    IF encOk THEN Ok(DeflateStream(content)) ELSE Err(EncoderErrorText)

\* algorithm with the two arms of the match in the other order.
algorithm_deflate_first(compression) ==
    IF contains(compression, Deflate) THEN <<Deflate>>
    ELSE IF contains(compression, Gzip) THEN <<Gzip>>
    ELSE <<>>

\* let algorithm = match compression { c if c.contains("gzip") => ..., ... }
algorithm(compression) ==
    IF contains(compression, Gzip) THEN <<Gzip>>
    ELSE IF contains(compression, Deflate) THEN <<Deflate>>
    ELSE <<>>

\* let compressed_content = match algorithm { ... }
compressed_content(content, alg, encOk) ==
    IF alg # <<>> /\ contains(alg[1], Gzip) THEN compress_gzip(content, encOk)
    ELSE IF alg # <<>> /\ contains(alg[1], Deflate) THEN compress_deflate(content, encOk)
    ELSE Ok(content)

ErrCompressing ==
    <<"E", "r", "r", "o", "r", " ", "c", "o", "m", "p", "r", "e", "s", "s", "i", "n", "g",
      " ", "c", "o", "n", "t", "e", "n", "t", ":", " ">>

\* compress with content_encoding set in the Err arm as in the Ok arm.
compress_encoding_on_error(self, compression, encOk) ==
    IF compression = <<>> THEN self
    ELSE LET alg == algorithm(compression[1])
             cc == compressed_content(self.content, alg, encOk)
         IN  IF cc.ok
             THEN [self EXCEPT !.content_encoding = alg, !.content = cc.val]
             ELSE [self EXCEPT !.status = "InternalServerError",
                               !.content_encoding = alg,
                               !.content = ErrCompressing \o cc.val]

\* Response::compress(self, compression: Option<&str>)
compress(self, compression, encOk) ==
    IF compression = <<>> THEN self
    ELSE LET alg == algorithm(compression[1])
             cc == compressed_content(self.content, alg, encOk)
         IN  IF cc.ok
             THEN [self EXCEPT !.content_encoding = alg, !.content = cc.val]
             ELSE [self EXCEPT !.status = "InternalServerError",
                               !.content = ErrCompressing \o cc.val]

\* ------------------------------------------------------------------------
\* route.rs: the router and the route handlers
\* ------------------------------------------------------------------------

KeyUserAgent == <<"u", "s", "e", "r", "-", "a", "g", "e", "n", "t">>

PathRoot == <<"/">>

PathUserAgent == <<"/", "u", "s", "e", "r", "-", "a", "g", "e", "n", "t">>

PathEcho == <<"/", "e", "c", "h", "o", "/">>

PathFiles == <<"/", "f", "i", "l", "e", "s", "/">>

MethodGet == <<"G", "E", "T">>

MethodPost == <<"P", "O", "S", "T">>

OctetStream ==
    <<"a", "p", "p", "l", "i", "c", "a", "t", "i", "o", "n", "/", "o", "c", "t", "e", "t",
      "-", "s", "t", "r", "e", "a", "m">>

MsgMissingUserAgent ==
    <<"M", "i", "s", "s", "i", "n", "g", " ", "U", "s", "e", "r", "-", "A", "g", "e", "n",
      "t", " ", "h", "e", "a", "d", "e", "r">>

MsgFileNotFound == <<"F", "i", "l", "e", " ", "n", "o", "t", " ", "f", "o", "u", "n", "d">>

MsgFailedWrite ==
    <<"F", "a", "i", "l", "e", "d", " ", "t", "o", " ", "w", "r", "i", "t", "e", " ", "f",
      "i", "l", "e">>

MsgFailedCreate ==
    <<"F", "a", "i", "l", "e", "d", " ", "t", "o", " ", "c", "r", "e", "a", "t", "e", " ",
      "f", "i", "l", "e">>

\* What the file system can do to one handler call: nothing, or fail the
\* read, the create or the write.
Faults == {"none", "read", "create", "write"}

\* The faults that can touch a handler: those of the file operations it makes.
faults_of(arm) ==
    IF arm = "file-content" THEN {"none", "read"}
    ELSE IF arm = "file-upload" THEN {"none", "create", "write"}
    ELSE {"none"}

\* handle_echo that also sets the connection directive.
handle_echo_closes(repeat) ==
    [ResponseDefault EXCEPT !.content = repeat, !.connection = <<ValClose>>]

handle_echo(repeat) == [ResponseDefault EXCEPT !.content = repeat]

handle_user_agent(request) ==
    LET ua_spec == get(request.headers, KeyUserAgent)
    IN  IF ua_spec # <<>>
        THEN [ResponseDefault EXCEPT !.content = ua_spec[1]]
        ELSE [ResponseDefault EXCEPT !.status = "BadRequest",
                                     !.content = MsgMissingUserAgent]

\* handle_file_content: files maps the names under dest_dir to their contents.
handle_file_content(filename, files, fault) ==
    IF filename \in DOMAIN files /\ fault # "read"
    THEN [ResponseDefault EXCEPT !.content_type = OctetStream,
                                 !.content = files[filename]]
    ELSE [ResponseDefault EXCEPT !.status = "NotFound", !.content = MsgFileNotFound]

\* handle_file_upload with the result of write_all ignored.
handle_file_upload_ignores_write(fault) ==
    IF fault = "create"
    THEN [ResponseDefault EXCEPT !.status = "InternalServerError",
                                 !.content = MsgFailedCreate]
    ELSE [ResponseDefault EXCEPT !.status = "Created"]

handle_file_upload(fault) ==
    IF fault = "create"
    THEN [ResponseDefault EXCEPT !.status = "InternalServerError",
                                 !.content = MsgFailedCreate]
    ELSE IF fault = "write"
    THEN [ResponseDefault EXCEPT !.status = "InternalServerError",
                                 !.content = MsgFailedWrite]
    ELSE [ResponseDefault EXCEPT !.status = "Created"]

\* The arm of the router's match that a request takes.
route_of(request) ==
    IF request.path = PathRoot THEN "root"
    ELSE IF request.path = PathUserAgent THEN "user-agent"
    ELSE IF starts_with(request.path, PathEcho) THEN "echo"
    ELSE IF request.method = MethodGet /\ starts_with(request.path, PathFiles) THEN "file-content"
    ELSE IF request.method = MethodPost /\ starts_with(request.path, PathFiles) THEN "file-upload"
    ELSE "not-found"

\* route::handle_request
handle_request(request, files, fault) ==
    LET arm == route_of(request)
    IN  IF arm = "root" THEN ResponseDefault
        ELSE IF arm = "user-agent" THEN handle_user_agent(request)
        ELSE IF arm = "echo" THEN handle_echo(DropFirst(request.path, 6))
        ELSE IF arm = "file-content"
             THEN handle_file_content(DropFirst(request.path, 7), files, fault)
        ELSE IF arm = "file-upload" THEN handle_file_upload(fault)
        ELSE [ResponseDefault EXCEPT !.version = request.version, !.status = "NotFound"]

\* files_after with the file opened for appending instead of File::create:
\* the body is added to what the file held.
files_after_append(request, files, fault) ==
    IF route_of(request) = "file-upload" /\ fault # "create"
    THEN insert(files, DropFirst(request.path, 7),
                (IF DropFirst(request.path, 7) \in DOMAIN files
                 THEN files[DropFirst(request.path, 7)] ELSE <<>>)
                \o (IF fault = "write" THEN <<>> ELSE request.body))
    ELSE files

\* The files under dest_dir after handle_request: File::create truncates (or
\* creates) the file and write_all stores the body; a failed write leaves the
\* truncated file.
files_after(request, files, fault) ==
    IF route_of(request) = "file-upload" /\ fault # "create"
    THEN insert(files, DropFirst(request.path, 7),
                IF fault = "write" THEN <<>> ELSE request.body)
    ELSE files

\* ------------------------------------------------------------------------
\* middleware.rs
\* ------------------------------------------------------------------------

KeyAcceptEncoding ==
    <<"a", "c", "c", "e", "p", "t", "-", "e", "n", "c", "o", "d", "i", "n", "g">>

\* mw_version that leaves the handler's version in place.
mw_version_kept(request, response) == response

mw_version(request, response) == [response EXCEPT !.version = request.version]

\* mw_close_connection that derives the directive from the persistent flag
\* instead of copying the request's header.
mw_close_connection_derived(request, response) ==
    [response EXCEPT !.connection = IF request.persistent THEN <<>> ELSE <<ValClose>>]

mw_close_connection(request, response) ==
    [response EXCEPT !.connection = get(request.headers, KeyConnection)]

mw_compress(request, response, encOk) ==
    compress(response, get(request.headers, KeyAcceptEncoding), encOk)

handle_middlewares(request, response, encOk) ==
    mw_compress(request, mw_close_connection(request, mw_version(request, response)), encOk)

\* ------------------------------------------------------------------------
\* main.rs: handle_response, handle_http_message
\* ------------------------------------------------------------------------

CRLF == <<"\r", "\n">>

HdrConnection == <<"C", "o", "n", "n", "e", "c", "t", "i", "o", "n", ":", " ">>

HdrContentType == <<"C", "o", "n", "t", "e", "n", "t", "-", "T", "y", "p", "e", ":", " ">>

HdrContentLength ==
    <<"C", "o", "n", "t", "e", "n", "t", "-", "L", "e", "n", "g", "t", "h", ":", " ">>

HdrContentEncoding ==
    <<"C", "o", "n", "t", "e", "n", "t", "-", "E", "n", "c", "o", "d", "i", "n", "g", ":", " ">>

\* let head = match response.status { ... }
head(status) ==
    CASE status = "Ok" -> <<"2", "0", "0", " ", "O", "K">>
      [] status = "BadRequest" ->
            <<"4", "0", "0", " ", "B", "a", "d", " ", "R", "e", "q", "u", "e", "s", "t">>
      [] status = "NotFound" ->
            <<"4", "0", "4", " ", "N", "o", "t", " ", "F", "o", "u", "n", "d">>
      [] status = "InternalServerError" ->
            <<"5", "0", "0", " ", "I", "n", "t", "e", "r", "n", "a", "l", " ", "S", "e", "r",
              "v", "e", "r", " ", "E", "r", "r", "o", "r">>
      [] status = "Created" -> <<"2", "0", "1", " ", "C", "r", "e", "a", "t", "e", "d">>

\* handle_response without the blank line between the headers and a body.
handle_response_no_blank(response) ==
    response.version \o <<" ">> \o head(response.status) \o CRLF
    \o (IF response.connection # <<>>
        THEN HdrConnection \o response.connection[1] \o CRLF
        ELSE <<>>)
    \o (IF Len(response.content) = 0
        THEN CRLF
        ELSE HdrContentType \o response.content_type \o CRLF
             \o HdrContentLength \o to_string(Len(response.content)) \o CRLF
             \o (IF response.content_encoding # <<>>
                 THEN HdrContentEncoding \o response.content_encoding[1] \o CRLF
                 ELSE <<>>)
             \o response.content)

\* handle_response without the branch on an empty content: the content
\* headers are always written.
handle_response_always_headers(response) ==
    response.version \o <<" ">> \o head(response.status) \o CRLF
    \o (IF response.connection # <<>>
        THEN HdrConnection \o response.connection[1] \o CRLF
        ELSE <<>>)
    \o HdrContentType \o response.content_type \o CRLF
    \o HdrContentLength \o to_string(Len(response.content)) \o CRLF
    \o (IF response.content_encoding # <<>>
        THEN HdrContentEncoding \o response.content_encoding[1] \o CRLF
        ELSE <<>>)
    \o CRLF
    \o response.content

\* handle_response with Content-Length pushed before Content-Type.
handle_response_length_first(response) ==
    response.version \o <<" ">> \o head(response.status) \o CRLF
    \o (IF response.connection # <<>>
        THEN HdrConnection \o response.connection[1] \o CRLF
        ELSE <<>>)
    \o (IF Len(response.content) = 0
        THEN CRLF
        ELSE HdrContentLength \o to_string(Len(response.content)) \o CRLF
             \o HdrContentType \o response.content_type \o CRLF
             \o (IF response.content_encoding # <<>>
                 THEN HdrContentEncoding \o response.content_encoding[1] \o CRLF
                 ELSE <<>>)
             \o CRLF
             \o response.content)

\* handle_response: the bytes written for a Response.
handle_response(response) ==
    LET content == response.content
        n == Len(content)
    IN  response.version \o <<" ">> \o head(response.status) \o CRLF
        \o (IF response.connection # <<>>
            THEN HdrConnection \o response.connection[1] \o CRLF
            ELSE <<>>)
        \o (IF n = 0
            THEN CRLF
            ELSE HdrContentType \o response.content_type \o CRLF
                 \o HdrContentLength \o to_string(n) \o CRLF
                 \o (IF response.content_encoding # <<>>
                     THEN HdrContentEncoding \o response.content_encoding[1] \o CRLF
                     ELSE <<>>)
                 \o CRLF
                 \o content)

\* handle_http_message: route, middlewares, serialization.
handle_http_message(request, files, fault, encOk) ==
    handle_response(
        handle_middlewares(request, handle_request(request, files, fault), encOk))

\* ------------------------------------------------------------------------
\* What clients put on the wire
\* ------------------------------------------------------------------------

SP == <<" ">>

\* A start line as a client writes it.
ReqLine(method, path, version) == method \o SP \o path \o SP \o version \o CRLF

\* A header line as a client writes it.
HdrLine(name, value) == name \o HdrSep \o value \o CRLF

Ver10 == <<"H", "T", "T", "P", "/", "1", ".", "0">>

PathNope == <<"/", "n", "o", "p", "e">>

PathEchoA == PathEcho \o <<"a">>

PathFileF == PathFiles \o <<"f">>

NameAcceptEncoding ==
    <<"A", "c", "c", "e", "p", "t", "-", "E", "n", "c", "o", "d", "i", "n", "g">>

NameConnection == <<"C", "o", "n", "n", "e", "c", "t", "i", "o", "n">>

NameContentLength ==
    <<"C", "o", "n", "t", "e", "n", "t", "-", "L", "e", "n", "g", "t", "h">>

ValKeepAlive == <<"k", "e", "e", "p", "-", "a", "l", "i", "v", "e">>

BodyHi == <<"h", "i">>

\* The pieces a client of the connection loop sends, one write each: whole
\* requests (persistent and not), a stray blank line, malformed requests,
\* and a request whose body travels in a separate write.
Fragments ==
    { ReqLine(MethodGet, PathRoot, VerDefault) \o CRLF,
      ReqLine(MethodGet, PathNope, Ver10) \o CRLF,
      ReqLine(MethodGet, PathRoot, Ver10) \o HdrLine(NameConnection, ValKeepAlive) \o CRLF,
      ReqLine(MethodGet, PathEchoA, VerDefault) \o HdrLine(NameAcceptEncoding, Gzip) \o CRLF,
      ReqLine(MethodPost, PathFileF, VerDefault) \o HdrLine(NameContentLength, <<"2">>) \o CRLF,
      ReqLine(MethodGet, PathFileF, VerDefault) \o CRLF,
      BodyHi,
      CRLF,
      MethodGet \o SP \o PathNope \o CRLF,
      ReqLine(MethodGet, PathRoot, VerDefault) \o NameConnection \o CRLF \o CRLF }

\* ------------------------------------------------------------------------
\* main.rs: the accept loop and handle_connection, one worker per connection
\* ------------------------------------------------------------------------

\* The connections: each accepted stream gets its own worker thread.
Conns == {1, 2}

\* The connection whose loop is followed from accept to close. Workers share
\* nothing but the files under dest_dir, so one connection's loop is the
\* same whatever the others do, up to the contents of those files.
Served == {1}

\* How many writes the clients make in all.
MaxSends == 2

VARIABLES
    cstate,    \* per connection, the client's end: "idle" (not connected), "open",
               \* "shut" (the client has finished sending), "reset" (severed)
    wire,      \* per connection, the bytes sent and not yet read by the server
    said,      \* per connection, every byte the client has sent (history)
    sends,     \* the number of client writes so far
    pc,        \* per connection, where its worker is: "none", "parse" (inside
               \* parse_request, in a blocking read), "handle" (a request was
               \* returned), "write" (the response bytes are ready), "closed"
               \* (handle_connection returned Ok), "failed" (it returned Err)
    rbuf,      \* per connection, the bytes the current parse_request call's
               \* BufReader has taken from the socket
    request,   \* per connection, the request being answered
    routed,    \* per connection, the Response the route handler returned
    response,  \* per connection, the Response after the middlewares
    bytes,     \* per connection, the serialized response
    encfail,   \* per connection, whether the encoder failed for that response
    out,       \* per connection, the byte blocks written to the socket
    err,       \* per connection, the error handle_connection returned ("" if none)
    log,       \* per connection, the outcomes of the parse_request calls so far
    files,     \* the files under dest_dir: name -> contents
    sent,      \* the request a client composed from parts (NoMsg when it sends fragments)
    f_stage,   \* the Response pipeline on its own: "off", "new", "compressed", "serialized"
    f_self,    \* the Response given to Response::compress
    f_compression, \* the Option<&str> given to Response::compress
    f_encOk,   \* whether the encoder succeeds
    f_resp,    \* the Response that compress returned
    f_bytes    \* the bytes handle_response returned for it

vars == <<cstate, wire, said, sends, pc, rbuf, request, routed, response, bytes,
          encfail, out, err, log, files, sent, f_stage, f_self, f_compression, f_encOk,
          f_resp, f_bytes>>

fn_vars == <<f_stage, f_self, f_compression, f_encOk, f_resp, f_bytes>>

conn_vars == <<cstate, wire, said, sends, pc, rbuf, request, routed, response, bytes,
               encfail, out, err, log, files, sent>>

answer_vars == <<request, routed, response, bytes, encfail>>

NoFiles == EmptyHeaders

\* The request parts of a composed message.
Msg(method, path, version, hdrs, body) ==
    [method |-> method, path |-> path, version |-> version, hdrs |-> hdrs, body |-> body]

NoMsg == Msg(<<>>, <<>>, <<>>, <<>>, <<>>)

\* The Response pipeline is not run on its own.
FnOff ==
    /\ f_stage = "off"
    /\ f_self = ResponseDefault
    /\ f_compression = <<>>
    /\ f_encOk = TRUE
    /\ f_resp = ResponseDefault
    /\ f_bytes = <<>>

\* No connection has been accepted.
ConnsIdle ==
    /\ cstate = [c \in Conns |-> "idle"]
    /\ wire = [c \in Conns |-> <<>>]
    /\ said = [c \in Conns |-> <<>>]
    /\ sends = 0
    /\ pc = [c \in Conns |-> "none"]
    /\ rbuf = [c \in Conns |-> <<>>]
    /\ request = [c \in Conns |-> NoRequest]
    /\ routed = [c \in Conns |-> ResponseDefault]
    /\ response = [c \in Conns |-> ResponseDefault]
    /\ bytes = [c \in Conns |-> <<>>]
    /\ encfail = [c \in Conns |-> FALSE]
    /\ out = [c \in Conns |-> <<>>]
    /\ err = [c \in Conns |-> ""]
    /\ log = [c \in Conns |-> <<>>]
    /\ files = NoFiles
    /\ sent = NoMsg

Init == ConnsIdle /\ FnOff

\* main: listener.incoming() yields the stream and a worker thread is spawned
\* that runs handle_connection, which starts with a parse_request call.
Accept(c) ==
    /\ cstate[c] = "idle"
    /\ cstate' = [cstate EXCEPT ![c] = "open"]
    /\ pc' = [pc EXCEPT ![c] = "parse"]
    /\ UNCHANGED <<wire, said, sends, rbuf, out, err, log, files>>
    /\ UNCHANGED <<answer_vars, sent, fn_vars>>

\* The client writes one fragment.
ClientSend(c, m) ==
    /\ cstate[c] = "open"
    /\ sends < MaxSends
    /\ sends' = sends + 1
    /\ wire' = [wire EXCEPT ![c] = @ \o m]
    /\ said' = [said EXCEPT ![c] = @ \o m]
    /\ UNCHANGED <<cstate, pc, rbuf, out, err, log, files>>
    /\ UNCHANGED <<answer_vars, sent, fn_vars>>

\* The client finishes sending (FIN): reads return 0 once the wire is drained.
ClientShutdown(c) ==
    /\ cstate[c] = "open"
    /\ cstate' = [cstate EXCEPT ![c] = "shut"]
    /\ UNCHANGED <<wire, said, sends, pc, rbuf, out, err, log, files>>
    /\ UNCHANGED <<answer_vars, sent, fn_vars>>

\* The connection is severed (RST): reads and writes fail from now on.
ClientReset(c) ==
    /\ cstate[c] \in {"open", "shut"}
    /\ cstate' = [cstate EXCEPT ![c] = "reset"]
    /\ wire' = [wire EXCEPT ![c] = <<>>]
    /\ UNCHANGED <<said, sends, pc, rbuf, out, err, log, files>>
    /\ UNCHANGED <<answer_vars, sent, fn_vars>>

\* on_parsed with the error of a failed parse swallowed and the parse retried.
on_parsed_retry(kind) ==
    CASE kind = "Err" -> "parse"
      [] kind = "None" -> "parse"
      [] kind = "Request" -> "handle"
      [] kind = "Blocked" -> "parse"

\* on_parsed with Ok(None) taken for the end of the stream (`else { break }`).
on_parsed_break(kind) ==
    CASE kind = "Err" -> "failed"
      [] kind = "None" -> "closed"
      [] kind = "Request" -> "handle"
      [] kind = "Blocked" -> "parse"

\* let Some(request) = request::parse_request(stream)? else { continue; };
\* where the worker goes on a parse_request outcome: Err leaves
\* handle_connection through `?`, Ok(None) `continue`s into a new
\* parse_request call, Ok(Some) goes on to answer the request.
on_parsed(kind) ==
    CASE kind = "Err" -> "failed"
      [] kind = "None" -> "parse"
      [] kind = "Request" -> "handle"
      [] kind = "Blocked" -> "parse"

\* One blocking read inside parse_request returns: the BufReader takes what
\* the socket holds (0 bytes at end of stream, an error on a severed
\* connection) and parse_request runs on until it returns or blocks in its
\* next read. When it returns, its BufReader is dropped with whatever it
\* still holds, and the outcome is logged.
Read(c) ==
    /\ pc[c] = "parse"
    /\ cstate[c] \in {"shut", "reset"} \/ wire[c] # <<>>
    /\ LET buf == rbuf[c] \o wire[c]
           o == IF cstate[c] = "reset"
                THEN Outcome("Err", "IoErr", NoRequest, 0)
                ELSE parse_request(buf, wire[c] = <<>>)
       IN  /\ pc' = [pc EXCEPT ![c] = on_parsed(o.kind)]
           /\ rbuf' = [rbuf EXCEPT ![c] = IF o.kind = "Blocked" THEN buf ELSE <<>>]
           /\ log' = [log EXCEPT ![c] = IF o.kind = "Blocked" THEN @ ELSE Append(@, o.kind)]
           /\ err' = [err EXCEPT ![c] = IF o.kind = "Err" THEN o.err ELSE @]
           /\ request' = [request EXCEPT ![c] = IF o.kind = "Request" THEN o.req ELSE @]
    /\ wire' = [wire EXCEPT ![c] = <<>>]
    /\ UNCHANGED <<cstate, said, sends, out, files, routed, response, bytes, encfail>>
    /\ UNCHANGED <<sent, fn_vars>>

\* Whether answering the request runs an encoder (which can then fail).
runs_encoder(req) ==
    LET ae == get(req.headers, KeyAcceptEncoding)
    IN  ae # <<>> /\ algorithm(ae[1]) # <<>>

\* handle_http_message: the route handler (with its file I/O), the
\* middlewares and the serialization. The handler's Response and the
\* Response after the middlewares are kept beside the bytes.
Handle(c) ==
    /\ pc[c] = "handle"
    /\ \E fault \in faults_of(route_of(request[c])),
          encOk \in (IF runs_encoder(request[c]) THEN BOOLEAN ELSE {TRUE}) :
          /\ routed' = [routed EXCEPT ![c] = handle_request(request[c], files, fault)]
          /\ response' = [response EXCEPT ![c] =
                             handle_middlewares(request[c], routed'[c], encOk)]
          /\ bytes' = [bytes EXCEPT ![c] =
                          handle_http_message(request[c], files, fault, encOk)]
          /\ encfail' = [encfail EXCEPT ![c] = ~encOk]
          /\ files' = files_after(request[c], files, fault)
    /\ pc' = [pc EXCEPT ![c] = "write"]
    /\ UNCHANGED <<cstate, wire, said, sends, rbuf, request, out, err, log, sent, fn_vars>>

\* after_write with the test inverted: if request.is_persistent() { break; }
after_write_inverted(req) == IF is_persistent(req) THEN "closed" ELSE "parse"

\* if !request.is_persistent() { break; }
after_write(req) == IF ~is_persistent(req) THEN "closed" ELSE "parse"

\* stream.write_all(&bytes)?, then the persistence test that ends the loop
\* or goes round it.
Write(c) ==
    /\ pc[c] = "write"
    /\ IF cstate[c] = "reset"
       THEN /\ pc' = [pc EXCEPT ![c] = "failed"]
            /\ err' = [err EXCEPT ![c] = "IoErr"]
            /\ UNCHANGED <<out, rbuf>>
       ELSE /\ out' = [out EXCEPT ![c] = Append(@, bytes[c])]
            /\ pc' = [pc EXCEPT ![c] = after_write(request[c])]
            /\ UNCHANGED <<rbuf, err>>
    /\ UNCHANGED <<cstate, wire, said, sends, log, files>>
    /\ UNCHANGED <<answer_vars, sent, fn_vars>>

Next ==
    \E c \in Served :
        \/ Accept(c)
        \/ \E m \in Fragments : ClientSend(c, m)
        \/ ClientShutdown(c)
        \/ ClientReset(c)
        \/ Read(c)
        \/ Handle(c)
        \/ Write(c)

Spec == Init /\ [][Next]_vars

\* ------------------------------------------------------------------------
\* One composed request through the connection loop
\* ------------------------------------------------------------------------

\* The most header lines a composed request carries.
MaxHdrs == 2

NameConnectionUpper == <<"C", "O", "N", "N", "E", "C", "T", "I", "O", "N">>

NameUserAgentUpper == <<"U", "S", "E", "R", "-", "A", "G", "E", "N", "T">>

ValDeflateGzip == Deflate \o <<",", " ">> \o Gzip

ValBr == <<"b", "r">>

\* The header lines a composed request draws from, as <<name, value>>.
HeaderPool ==
    { <<NameConnection, ValClose>>,
      <<NameConnectionUpper, ValKeepAlive>>,
      <<NameAcceptEncoding, Gzip>>,
      <<NameAcceptEncoding, Deflate>>,
      <<NameAcceptEncoding, ValBr>>,
      <<NameUserAgentUpper, <<"x">>>>,
      <<NameContentLength, <<"2">>>> }

\* Method and path of the composed requests: one per arm of the router.
Targets ==
    { <<MethodGet, PathRoot>>, <<MethodGet, PathUserAgent>>, <<MethodGet, PathEchoA>>,
      <<MethodGet, PathFileF>>, <<MethodPost, PathFileF>>, <<MethodGet, PathNope>> }

Versions == {VerDefault, Ver10}

\* A client sends a body when it declares one.
body_for(hs) ==
    IF \E i \in 1..Len(hs) : hs[i][1] = NameContentLength THEN BodyHi ELSE <<>>

HdrSeqs == UNION {[1..n -> HeaderPool] : n \in 0..MaxHdrs}

Messages ==
    {Msg(t[1], t[2], v, hs, body_for(hs)) : t \in Targets, v \in Versions, hs \in HdrSeqs}

RECURSIVE HdrLines(_)
HdrLines(hs) ==
    IF hs = <<>> THEN <<>> ELSE HdrLine(hs[1][1], hs[1][2]) \o HdrLines(Tail(hs))

\* The bytes of a composed request.
Render(msg) ==
    ReqLine(msg.method, msg.path, msg.version) \o HdrLines(msg.hdrs) \o CRLF \o msg.body

\* dest_dir holds one file, f.
OneFile == insert(NoFiles, <<"f">>, BodyHi)

\* A client has connected, sent one composed request and finished sending;
\* the worker is in its first parse_request call.
MsgInit ==
    /\ sent \in Messages
    /\ cstate = [c \in Conns |-> IF c \in Served THEN "shut" ELSE "idle"]
    /\ wire = [c \in Conns |-> IF c \in Served THEN Render(sent) ELSE <<>>]
    /\ said = wire
    /\ sends = 1
    /\ pc = [c \in Conns |-> IF c \in Served THEN "parse" ELSE "none"]
    /\ rbuf = [c \in Conns |-> <<>>]
    /\ request = [c \in Conns |-> NoRequest]
    /\ routed = [c \in Conns |-> ResponseDefault]
    /\ response = [c \in Conns |-> ResponseDefault]
    /\ bytes = [c \in Conns |-> <<>>]
    /\ encfail = [c \in Conns |-> FALSE]
    /\ out = [c \in Conns |-> <<>>]
    /\ err = [c \in Conns |-> ""]
    /\ log = [c \in Conns |-> <<>>]
    /\ files = OneFile
    /\ FnOff

MsgNext == \E c \in Served : Read(c) \/ Handle(c) \/ Write(c)

MsgSpec == MsgInit /\ [][MsgNext]_vars

\* ------------------------------------------------------------------------
\* Raw bytes through the connection loop
\* ------------------------------------------------------------------------

MethodPut == <<"P", "U", "T">>

PathFilesBare == <<"/", "f", "i", "l", "e", "s">>

\* Start lines as they may arrive: well formed, short of tokens, with an
\* empty token (two spaces), with a fourth token, blank, and one for each arm
\* of the router with methods and paths that fall through to its last arm.
StartLines ==
    { ReqLine(MethodGet, PathRoot, VerDefault),
      ReqLine(MethodPost, PathFileF, VerDefault),
      MethodGet \o SP \o PathRoot \o CRLF,
      MethodGet \o CRLF,
      MethodGet \o SP \o SP \o PathRoot \o SP \o VerDefault \o CRLF,
      MethodGet \o SP \o PathRoot \o SP \o VerDefault \o SP \o <<"x">> \o CRLF,
      CRLF,
      ReqLine(MethodPut, PathFileF, VerDefault),
      ReqLine(MethodGet, PathFileF, VerDefault),
      ReqLine(MethodGet, PathFilesBare, VerDefault),
      ReqLine(MethodGet, PathEchoA, VerDefault),
      ReqLine(MethodGet, PathUserAgent, VerDefault) }

\* Header blocks: none, a declared length (plain, signed, not a number, more
\* than is sent), a header line without ": ", and a head that stops short of
\* its blank line.
HeaderBlocks ==
    { CRLF,
      HdrLine(NameContentLength, <<"2">>) \o CRLF,
      HdrLine(NameContentLength, <<"+", "2">>) \o CRLF,
      HdrLine(NameContentLength, <<"x">>) \o CRLF,
      HdrLine(NameContentLength, <<"5">>) \o CRLF,
      NameContentLength \o <<":", "2">> \o CRLF \o CRLF,
      <<>> }

\* A second request, sent by the client behind the first.
NextRequest == ReqLine(MethodGet, PathNope, VerDefault) \o CRLF

\* What follows the head: nothing, a body (whole or cut short), and a second
\* request behind the first.
Tails == {<<>>, <<"h">>, BodyHi, BodyHi \o NextRequest, NextRequest}

RawInputs == {l \o h \o t : l \in StartLines, h \in HeaderBlocks, t \in Tails}

\* A client has connected and written some bytes in one go, and has
\* finished sending or not; the worker is in its first parse_request call.
RawInit ==
    /\ sent = NoMsg
    /\ cstate \in [Conns -> {"idle", "open", "shut"}]
    /\ \A c \in Conns : cstate[c] = "idle" <=> c \notin Served
    /\ wire \in [Conns -> RawInputs \cup {<<>>}]
    /\ \A c \in Conns : wire[c] = <<>> <=> c \notin Served
    /\ said = wire
    /\ sends = 1
    /\ pc = [c \in Conns |-> IF c \in Served THEN "parse" ELSE "none"]
    /\ rbuf = [c \in Conns |-> <<>>]
    /\ request = [c \in Conns |-> NoRequest]
    /\ routed = [c \in Conns |-> ResponseDefault]
    /\ response = [c \in Conns |-> ResponseDefault]
    /\ bytes = [c \in Conns |-> <<>>]
    /\ encfail = [c \in Conns |-> FALSE]
    /\ out = [c \in Conns |-> <<>>]
    /\ err = [c \in Conns |-> ""]
    /\ log = [c \in Conns |-> <<>>]
    /\ files = OneFile
    /\ FnOff

RawSpec == RawInit /\ [][MsgNext]_vars

\* ------------------------------------------------------------------------
\* Two connections at once
\* ------------------------------------------------------------------------

BodyYo == <<"y", "o">>

\* The requests the two clients choose from: a download and an upload of the
\* same file, and two requests that touch no file.
SharedMessages ==
    { Msg(MethodGet, PathFileF, VerDefault, <<>>, <<>>),
      Msg(MethodPost, PathFileF, VerDefault, <<<<NameContentLength, <<"2">>>>>>, BodyYo),
      Msg(MethodGet, PathEchoA, VerDefault, <<<<NameAcceptEncoding, Gzip>>>>, <<>>),
      Msg(MethodGet, PathRoot, Ver10, <<>>, <<>>) }

\* Both clients have connected, sent one request each and finished sending;
\* both workers are in their first parse_request call; dest_dir holds f.
SharedInit ==
    /\ sent = NoMsg
    /\ cstate = [c \in Conns |-> "shut"]
    /\ wire \in [Conns -> {Render(m) : m \in SharedMessages}]
    /\ said = wire
    /\ sends = Cardinality(Conns)
    /\ pc = [c \in Conns |-> "parse"]
    /\ rbuf = [c \in Conns |-> <<>>]
    /\ request = [c \in Conns |-> NoRequest]
    /\ routed = [c \in Conns |-> ResponseDefault]
    /\ response = [c \in Conns |-> ResponseDefault]
    /\ bytes = [c \in Conns |-> <<>>]
    /\ encfail = [c \in Conns |-> FALSE]
    /\ out = [c \in Conns |-> <<>>]
    /\ err = [c \in Conns |-> ""]
    /\ log = [c \in Conns |-> <<>>]
    /\ files = OneFile
    /\ FnOff

\* handle_file_upload up to File::create: the file exists and is empty; the
\* worker is about to call write_all. Other workers run in between.
Create(c) ==
    /\ pc[c] = "handle"
    /\ route_of(request[c]) = "file-upload"
    /\ files' = insert(files, DropFirst(request[c].path, 7), <<>>)
    /\ pc' = [pc EXCEPT ![c] = "upload"]
    /\ UNCHANGED <<cstate, wire, said, sends, rbuf, out, err, log, sent, fn_vars>>
    /\ UNCHANGED answer_vars

\* handle_file_upload from write_all on, then the middlewares and the
\* serialization.
Stored(c) ==
    /\ pc[c] = "upload"
    /\ \E fault \in {"none", "write"},
          encOk \in (IF runs_encoder(request[c]) THEN BOOLEAN ELSE {TRUE}) :
          /\ routed' = [routed EXCEPT ![c] = handle_request(request[c], files, fault)]
          /\ response' = [response EXCEPT ![c] =
                             handle_middlewares(request[c], routed'[c], encOk)]
          /\ bytes' = [bytes EXCEPT ![c] =
                          handle_http_message(request[c], files, fault, encOk)]
          /\ encfail' = [encfail EXCEPT ![c] = ~encOk]
          /\ files' = files_after(request[c], files, fault)
    /\ pc' = [pc EXCEPT ![c] = "write"]
    /\ UNCHANGED <<cstate, wire, said, sends, rbuf, request, out, err, log, sent, fn_vars>>

\* The workers of all connections, interleaved in any order.
SharedNext ==
    \E c \in Conns : Read(c) \/ Handle(c) \/ Create(c) \/ Stored(c) \/ Write(c)

SharedSpec == SharedInit /\ [][SharedNext]_vars

\* ------------------------------------------------------------------------
\* Response::compress and handle_response on their own
\* ------------------------------------------------------------------------

ResponseSamples ==
    [status : HttpCode,
     version : Versions,
     content_type : {TextPlain, OctetStream},
     content_encoding : {<<>>, <<Gzip>>},
     connection : {<<>>, <<ValClose>>},
     content : {<<>>, <<"a">>, BodyHi}]

CompressionSamples ==
    {<<>>, <<Gzip>>, <<ValDeflateGzip>>, <<Deflate>>, <<ValBr>>, <<Gzip \o <<",">> \o Deflate>>}

FnInit ==
    /\ ConnsIdle
    /\ f_stage = "new"
    /\ f_self \in ResponseSamples
    /\ f_compression \in CompressionSamples
    /\ f_encOk \in BOOLEAN
    /\ f_resp = ResponseDefault
    /\ f_bytes = <<>>

Compress ==
    /\ f_stage = "new"
    /\ f_resp' = compress(f_self, f_compression, f_encOk)
    /\ f_stage' = "compressed"
    /\ UNCHANGED <<conn_vars, f_self, f_compression, f_encOk, f_bytes>>

Serialize ==
    /\ f_stage = "compressed"
    /\ f_bytes' = handle_response(f_resp)
    /\ f_stage' = "serialized"
    /\ UNCHANGED <<conn_vars, f_self, f_compression, f_encOk, f_resp>>

FnNext == Compress \/ Serialize

FnSpec == FnInit /\ [][FnNext]_vars

\* ------------------------------------------------------------------------
\* Reading a written response back, as a client does
\* ------------------------------------------------------------------------

\* The index of the blank line that ends the head (0 when there is none).
BlankAt(b) == find(b, CRLF \o CRLF)

\* The status line and the header lines.
LinesOf(b) == split(SubSeq(b, 1, BlankAt(b) - 1), CRLF)

StatusLineOf(b) == LinesOf(b)[1]

\* What follows the blank line.
BodyOf(b) == DropFirst(b, BlankAt(b) + 3)

\* The values of the header lines called `name`, in order.
RECURSIVE ValuesIn(_, _)
ValuesIn(lines, name) ==
    IF lines = <<>> THEN <<>>
    ELSE (IF starts_with(lines[1], name \o HdrSep)
          THEN <<DropFirst(lines[1], Len(name) + 2)>>
          ELSE <<>>) \o ValuesIn(Tail(lines), name)

HeaderValues(b, name) == ValuesIn(Tail(LinesOf(b)), name)

HName(h) == SubSeq(h, 1, Len(h) - 2)

\* A response in the serializer's layout: a status line of a version token,
\* a three-digit code and a reason; header lines "Name: value"; a blank
\* line; a body of exactly Content-Length bytes (none without that header).
WellFormed(b) ==
    /\ BlankAt(b) # 0
    /\ LET st == split(StatusLineOf(b), SP)
           cl == HeaderValues(b, HName(HdrContentLength))
       IN  /\ Len(st) >= 3
           /\ Len(st[2]) = 3
           /\ \A k \in 1..3 : IsDigit(st[2][k])
           /\ \A i \in 2..Len(LinesOf(b)) : find(LinesOf(b)[i], HdrSep) > 1
           /\ Len(cl) <= 1
           /\ IF cl = <<>> THEN BodyOf(b) = <<>>
              ELSE parse_usize(cl[1]) = <<Len(BodyOf(b))>>

\* The value of the last header line of hs whose name is `lname` in any
\* letter case, as an Option.
LastNamed(hs, lname) ==
    LET at == {i \in 1..Len(hs) : to_lowercase(hs[i][1]) = lname}
    IN  IF at = {} THEN <<>> ELSE <<hs[MaxOf(at)][2]>>

Last(q) == q[Len(q)]

\* How many of the parse_request calls of c returned a request.
Returned(c) == Cardinality({i \in 1..Len(log[c]) : log[c][i] = "Request"})

\* A parse_request call of c returns `kind` in this step.
Returns(c, kind) == Len(log'[c]) = Len(log[c]) + 1 /\ Last(log'[c]) = kind

\* The worker of c has left handle_connection: its stream is dropped, which
\* closes the connection.
Ended(c) == pc[c] \in {"closed", "failed"}

\* The response of c is written in this step.
Writes(c) == pc[c] = "write" /\ out'[c] # out[c]

\* ------------------------------------------------------------------------
\* The connection loop (Spec)
\* ------------------------------------------------------------------------

\* C1: in every step that writes the response to a parsed request, the
\* connection is closed if and only if that request's persistent flag is
\* false; when the flag is true the worker is back in a fresh parse_request
\* call on the same connection, and the response written is the one
\* computed for that request.
C1_CloseIffNotPersistent ==
    [][\A c \in Conns :
          Writes(c) =>
             /\ out'[c] = Append(out[c], bytes[c])
             /\ (pc'[c] \in {"closed", "failed"}) <=> ~request[c].persistent
             /\ request[c].persistent => (pc'[c] = "parse" /\ rbuf'[c] = <<>>)
             /\ ~request[c].persistent => (pc'[c] = "closed" /\ err'[c] = "")]_vars

\* C1's case: a first, persistent request was answered and the loop went on
\* to a second, non-persistent one, after whose response it closed.
C1_Witness ==
    \E c \in Conns :
        /\ pc[c] = "closed"
        /\ Len(out[c]) = 2
        /\ log[c] = <<"Request", "Request">>
        /\ ~request[c].persistent

\* C3: a parse_request call that returns Err ends the loop in the same step:
\* handle_connection returns that error, nothing is written for the
\* request, and from then on the worker neither parses nor writes.
C3_FatalParseEndsLoop ==
    [][\A c \in Conns :
          /\ Returns(c, "Err") =>
                /\ pc'[c] = "failed"
                /\ err'[c] \in {"ConnectionClosed", "MissingMethod", "MissingPath",
                                "MissingVersion", "InvalidHeader", "IoErr"}
                /\ out'[c] = out[c]
                /\ Len(out[c]) = Returned(c)
          /\ pc[c] = "failed" =>
                /\ pc'[c] = "failed"
                /\ out'[c] = out[c]
                /\ log'[c] = log[c]
                /\ err'[c] = err[c]
                /\ rbuf'[c] = rbuf[c]]_vars

\* C3's case: after one answered request, a start line without a version
\* ended the loop with MissingVersion and only the first response written.
C3_Witness ==
    \E c \in Conns :
        /\ pc[c] = "failed"
        /\ err[c] = "MissingVersion"
        /\ log[c] = <<"Request", "Err">>
        /\ Len(out[c]) = 1

\* C4: a parse_request call that returns None writes nothing, leaves the
\* connection open and puts the worker in a new parse_request call.
C4_BlankLineRetries ==
    [][\A c \in Conns :
          Returns(c, "None") =>
             /\ out'[c] = out[c]
             /\ pc'[c] = "parse"
             /\ rbuf'[c] = <<>>
             /\ err'[c] = ""]_vars

\* C4's case: two blank lines in a row, each read by its own call, nothing
\* written, the worker parsing again.
C4_Witness ==
    \E c \in Conns :
        /\ log[c] = <<"None", "None">>
        /\ pc[c] = "parse"
        /\ out[c] = <<>>
        /\ said[c] = CRLF \o CRLF

\* The client of c has sent something other than white space.
Asked(c) == trim(said[c]) # <<>>

\* C5 as stated: whatever bytes a client sends as a request, once the
\* connection has ended without having been severed, a well-formed response
\* was written on it.
C5_EveryRequestAnswered ==
    \A c \in Conns :
        (Ended(c) /\ cstate[c] # "reset" /\ Asked(c)) =>
            \E i \in 1..Len(out[c]) : WellFormed(out[c][i])

\* C5 amended: every block written is one well-formed response; responses
\* are written only for requests that parse_request returned, one each (a
\* parse that fails fatally gets none); and a returned request is on its way
\* to its response: the worker's steps up to the write never wait, and once
\* they are taken the response is written unless the connection was severed.
C5_ParsedRequestsAnswered ==
    \A c \in Conns :
        /\ \A i \in 1..Len(out[c]) : WellFormed(out[c][i])
        /\ Len(out[c]) <= Returned(c)
        /\ (cstate[c] # "reset" /\ pc[c] \notin {"handle", "write"}) =>
               Len(out[c]) = Returned(c)
        /\ pc[c] = "handle" => ENABLED Handle(c)
        /\ pc[c] = "write" => ENABLED Write(c)

\* C5's case: two requests were returned and answered on a connection that
\* was not severed.
C5_Witness ==
    \E c \in Conns :
        /\ Returned(c) = 2
        /\ Len(out[c]) = 2
        /\ cstate[c] # "reset"
        /\ Len(BodyOf(out[c][1])) > 0

\* ------------------------------------------------------------------------
\* One composed request (MsgSpec)
\* ------------------------------------------------------------------------

\* The composed request of c has been returned by parse_request.
Parsed(c) == log[c] # <<>> /\ log[c][1] = "Request"

\* C2: the request parse_request returns for a composed message is
\* persistent exactly when the version the client wrote contains "1.1" and
\* the message has no connection header (under any letter case of the name)
\* or the last one's value is not "close".
C2_PersistentIff ==
    \A c \in Served :
        Parsed(c) =>
            (request[c].persistent <=>
                (/\ contains(sent.version, Ver11)
                 /\ LastNamed(sent.hdrs, KeyConnection) # <<ValClose>>))

\* C2's case: an HTTP/1.1 request with CONNECTION: keep-alive followed by
\* Connection: close is returned as not persistent.
C2_Witness ==
    \E c \in Served :
        /\ Parsed(c)
        /\ sent.version = VerDefault
        /\ sent.hdrs = <<<<NameConnectionUpper, ValKeepAlive>>, <<NameConnection, ValClose>>>>
        /\ ~request[c].persistent

\* C8: when the encoder fails, the worker goes on to write a response: its
\* status is InternalServerError, its body the error text, it carries no
\* Content-Encoding, it is the serialization of the Response the compression
\* stage returned, and after writing it the loop closes or continues by the
\* request's persistent flag like after any other response.
C8_EncoderFailureAnswered ==
    /\ [](\A c \in Served :
             (pc[c] = "write" /\ encfail[c]) =>
                 /\ response[c].status = "InternalServerError"
                 /\ response[c].content = ErrCompressing \o EncoderErrorText
                 /\ response[c].content_encoding = <<>>
                 /\ bytes[c] = handle_response(response[c])
                 /\ split(StatusLineOf(bytes[c]), SP)[2] = <<"5", "0", "0">>
                 /\ HeaderValues(bytes[c], HName(HdrContentEncoding)) = <<>>
                 /\ BodyOf(bytes[c]) = response[c].content)
    /\ [][\A c \in Served :
             /\ (pc[c] = "handle" /\ pc'[c] # "handle") => pc'[c] = "write"
             /\ (pc[c] = "write" /\ pc'[c] # "write" /\ encfail[c]) =>
                   /\ out'[c] = Append(out[c], bytes[c])
                   /\ pc'[c] = IF request[c].persistent THEN "parse" ELSE "closed"]_vars

\* C8's case: the encoder failed for a persistent request, the 500 response
\* was written and the worker is parsing again.
C8_Witness ==
    \E c \in Served :
        /\ encfail[c]
        /\ pc[c] = "parse"
        /\ Len(out[c]) = 1
        /\ request[c].persistent
        /\ starts_with(BodyOf(out[c][1]), ErrCompressing)

\* C9: every response written starts with the version token the client
\* wrote in the request it answers.
C9_VersionEchoed ==
    \A c \in Served :
        \A i \in 1..Len(out[c]) :
            split(StatusLineOf(out[c][i]), SP)[1] = sent.version

\* C9's case: a handler that left the default HTTP/1.1 in its Response
\* answered an HTTP/1.0 request, and the response says HTTP/1.0.
C9_Witness ==
    \E c \in Served :
        /\ Len(out[c]) = 1
        /\ sent.version = Ver10
        /\ routed[c].version = VerDefault
        /\ routed[c].status = "BadRequest"
        /\ starts_with(out[c][1], Ver10 \o SP)

\* C10: the written response has a Connection header exactly when the
\* request has a connection header under any letter case of its name; there
\* is then one, and its value is the value the request holds for it (that of
\* the last such line).
C10_ConnectionEchoed ==
    \A c \in Served :
        \A i \in 1..Len(out[c]) :
            /\ HeaderValues(out[c][i], NameConnection) = LastNamed(sent.hdrs, KeyConnection)
            /\ LastNamed(sent.hdrs, KeyConnection) = get(request[c].headers, KeyConnection)

\* C10's case: the request named the header CONNECTION and the response
\* carries Connection: keep-alive.
C10_Witness ==
    \E c \in Served :
        /\ Len(out[c]) = 1
        /\ sent.hdrs = <<<<NameConnectionUpper, ValKeepAlive>>>>
        /\ HeaderValues(out[c][1], NameConnection) = <<ValKeepAlive>>

\* ------------------------------------------------------------------------
\* Response::compress and handle_response (FnSpec)
\* ------------------------------------------------------------------------

\* C6: the bytes handle_response returns for a Response with empty content
\* have no Content-Type, Content-Length or Content-Encoding header and no
\* body; for a non-empty content they have a Content-Type header, one
\* Content-Length header whose value is the length of the content as the
\* compression stage left it, and exactly that content as body.
C6_ContentHeaders ==
    f_stage = "serialized" =>
        IF f_resp.content = <<>>
        THEN /\ HeaderValues(f_bytes, HName(HdrContentType)) = <<>>
             /\ HeaderValues(f_bytes, HName(HdrContentLength)) = <<>>
             /\ HeaderValues(f_bytes, HName(HdrContentEncoding)) = <<>>
             /\ BodyOf(f_bytes) = <<>>
        ELSE /\ HeaderValues(f_bytes, HName(HdrContentType)) = <<f_resp.content_type>>
             /\ Len(HeaderValues(f_bytes, HName(HdrContentLength))) = 1
             /\ parse_usize(HeaderValues(f_bytes, HName(HdrContentLength))[1])
                   = <<Len(f_resp.content)>>
             /\ BodyOf(f_bytes) = f_resp.content

\* C6's case: a compressed content, longer than the handler's, is
\* serialized with the compressed length.
C6_Witness ==
    /\ f_stage = "serialized"
    /\ f_resp.content_encoding = <<Gzip>>
    /\ Len(f_resp.content) > Len(f_self.content)
    /\ HeaderValues(f_bytes, HName(HdrContentLength)) = <<to_string(Len(f_self.content) + 20)>>

\* C7: compress returns the Response unchanged when there is no
\* Accept-Encoding value; otherwise, the encoder succeeding, a value that
\* contains "gzip" gives the gzip member of the content under
\* content_encoding gzip wherever "deflate" stands in the value, a value that
\* contains "deflate" and not "gzip" gives the deflate stream under
\* content_encoding deflate, and any other value gives the content unchanged
\* with no content_encoding; nothing else of the Response changes.
C7_EncodingSelected ==
    f_stage \in {"compressed", "serialized"} =>
        IF f_compression = <<>> THEN f_resp = f_self
        ELSE f_encOk =>
             /\ contains(f_compression[1], Gzip) =>
                   /\ f_resp.content_encoding = <<Gzip>>
                   /\ f_resp.content = GzHeader \o DeflateStream(f_self.content)
                                           \o GzTrailer(f_self.content)
             /\ (~contains(f_compression[1], Gzip) /\ contains(f_compression[1], Deflate)) =>
                   /\ f_resp.content_encoding = <<Deflate>>
                   /\ f_resp.content = DeflateStream(f_self.content)
             /\ (~contains(f_compression[1], Gzip) /\ ~contains(f_compression[1], Deflate)) =>
                   /\ f_resp.content_encoding = <<>>
                   /\ f_resp.content = f_self.content
             /\ [f_resp EXCEPT !.content = <<>>, !.content_encoding = <<>>]
                   = [f_self EXCEPT !.content = <<>>, !.content_encoding = <<>>]

\* C7's case: "deflate, gzip" selected gzip.
C7_Witness ==
    /\ f_stage = "compressed"
    /\ f_compression = <<ValDeflateGzip>>
    /\ f_resp.content_encoding = <<Gzip>>
    /\ starts_with(f_resp.content, GzHeader)
    /\ f_self.content # <<>>

\* The status text a client expects for each status.
StatusText(status) ==
    CASE status = "Ok" -> <<"2", "0", "0", " ", "O", "K">>
      [] status = "Created" -> <<"2", "0", "1", " ", "C", "r", "e", "a", "t", "e", "d">>
      [] status = "BadRequest" ->
            <<"4", "0", "0", " ", "B", "a", "d", " ", "R", "e", "q", "u", "e", "s", "t">>
      [] status = "NotFound" ->
            <<"4", "0", "4", " ", "N", "o", "t", " ", "F", "o", "u", "n", "d">>
      [] status = "InternalServerError" ->
            <<"5", "0", "0", " ", "I", "n", "t", "e", "r", "n", "a", "l", " ", "S", "e", "r",
              "v", "e", "r", " ", "E", "r", "r", "o", "r">>

\* The lines a client reading positionally expects before the blank line.
ExpectedLines(r) ==
    <<r.version \o SP \o StatusText(r.status)>>
    \o (IF r.connection # <<>> THEN <<HdrConnection \o r.connection[1]>> ELSE <<>>)
    \o (IF r.content # <<>>
        THEN <<HdrContentType \o r.content_type,
               HdrContentLength \o to_string(Len(r.content))>>
             \o (IF r.content_encoding # <<>>
                 THEN <<HdrContentEncoding \o r.content_encoding[1]>>
                 ELSE <<>>)
        ELSE <<>>)

\* C11: read back line by line, the bytes handle_response returns for any
\* Response are the status line "{version} {status text}" with the status
\* text of the fixed table, then Connection if set, then for a non-empty
\* content Content-Type, Content-Length and Content-Encoding if set, in that
\* order and nothing else, then the blank line, then the content bytes.
C11_EmissionOrder ==
    f_stage = "serialized" =>
        /\ BlankAt(f_bytes) # 0
        /\ LinesOf(f_bytes) = ExpectedLines(f_resp)
        /\ BodyOf(f_bytes) = f_resp.content
        /\ Len(f_bytes) = BlankAt(f_bytes) + 3 + Len(f_resp.content)

\* C11's case: a Created response with a connection directive and a
\* compressed content is serialized on five lines.
C11_Witness ==
    /\ f_stage = "serialized"
    /\ f_resp.status = "Created"
    /\ f_resp.connection = <<ValClose>>
    /\ f_resp.content_encoding = <<Deflate>>
    /\ f_resp.content # <<>>
    /\ Len(LinesOf(f_bytes)) = 5

\* No upper-case letter occurs in s.
IsLower(s) == \A i \in 1..Len(s) : \A j \in 1..26 : UpperChars[j] # s[i]

\* C12: in the request parse_request returns for a composed message every
\* header key is lower-case; each header line the client wrote, under
\* whatever letter case, is retrievable by its lower-case name, and what is
\* retrieved is the value of the last line with that name in any case; the
\* /user-agent handler finds the header that way.
C12_LowerCaseKeysLastWins ==
    \A c \in Served :
        Parsed(c) =>
            /\ \A k \in DOMAIN request[c].headers : IsLower(k)
            /\ \A i \in 1..Len(sent.hdrs) :
                   LET lname == to_lowercase(sent.hdrs[i][1])
                   IN  /\ lname \in DOMAIN request[c].headers
                       /\ get(request[c].headers, lname) = LastNamed(sent.hdrs, lname)
            /\ Cardinality(DOMAIN request[c].headers)
                   = Cardinality({to_lowercase(sent.hdrs[i][1]) : i \in 1..Len(sent.hdrs)})
            /\ (pc[c] \in {"write", "closed"} /\ sent.path = PathUserAgent
                   /\ LastNamed(sent.hdrs, KeyUserAgent) # <<>>) =>
                   routed[c].content = LastNamed(sent.hdrs, KeyUserAgent)[1]

\* C12's case: Connection: close followed by CONNECTION: keep-alive is one
\* header, connection, holding keep-alive.
C12_Witness ==
    \E c \in Served :
        /\ Parsed(c)
        /\ sent.hdrs = <<<<NameConnection, ValClose>>, <<NameConnectionUpper, ValKeepAlive>>>>
        /\ DOMAIN request[c].headers = {KeyConnection}
        /\ get(request[c].headers, KeyConnection) = <<ValKeepAlive>>

\* ------------------------------------------------------------------------
\* Raw bytes (RawSpec)
\* ------------------------------------------------------------------------

\* The first parse_request call of c has returned.
FirstDone(c) == log[c] # <<>>

\* The first parse_request call of c has returned and nothing later has
\* replaced what it left in request and err.
FirstOnly(c) == Len(log[c]) = 1

\* The content-length a head declares: the number in the value of its last
\* Content-Length line, as an Option (None when there is no such line or
\* its value is not a number).
Declared(b) ==
    LET cl == HeaderValues(b, NameContentLength)
    IN  IF cl = <<>> THEN <<>> ELSE parse_usize(Last(cl))

\* The head of b is a start line of at least three tokens, header lines
\* that all hold ": ", and a blank line.
HeadComplete(b) ==
    /\ BlankAt(b) # 0
    /\ Len(split(trim(StatusLineOf(b)), SP)) >= 3
    /\ \A i \in 2..Len(LinesOf(b)) : find(LinesOf(b)[i], HdrSep) # 0

\* C13: the request returned for a complete head has a body of exactly the
\* declared number of bytes, the ones that follow the blank line; with no
\* content-length, or one that is not a number, the body is empty; and when
\* the stream has ended with fewer body bytes than declared, the call
\* returns an I/O error, no request, and nothing is written.
C13_BodyLength ==
    \A c \in Served :
        (FirstOnly(c) /\ HeadComplete(said[c])) =>
            LET d == Declared(said[c])
                n == unwrap_or(d, 0)
                follows == BodyOf(said[c])
            IN  /\ Parsed(c) =>
                      /\ Len(request[c].body) = n
                      /\ request[c].body = SubSeq(follows, 1, n)
                      /\ d = <<>> => request[c].body = <<>>
                /\ n <= Len(follows) => Parsed(c)
                /\ n > Len(follows) =>
                      /\ log[c] = <<"Err">>
                      /\ err[c] = "IoErr"
                      /\ request[c] = NoRequest
                      /\ out[c] = <<>>
                      /\ pc[c] = "failed"

\* C13's case: five bytes were declared, two arrived and the client
\* finished sending: the parse failed with the I/O error.
C13_Witness ==
    \E c \in Served :
        /\ FirstOnly(c)
        /\ HeadComplete(said[c])
        /\ Declared(said[c]) = <<5>>
        /\ BodyOf(said[c]) = BodyHi
        /\ err[c] = "IoErr"
        /\ pc[c] = "failed"

\* ------------------------------------------------------------------------
\* Two connections at once (SharedSpec)
\* ------------------------------------------------------------------------

\* The responses handle_http_message can give to req over the directory F.
AnswersIn(req, F) ==
    {handle_http_message(req, F, fault, encOk) :
        fault \in faults_of(route_of(req)),
        encOk \in (IF runs_encoder(req) THEN BOOLEAN ELSE {TRUE})}

\* The worker of c has computed the response to its request.
Answered(c) == bytes[c] # <<>>

\* C14 as stated: the response computed on a connection is one the same
\* request gets when its connection is the only one, i.e. over the
\* directory as it was before any other connection was served.
C14_SameAsAlone ==
    \A c \in Conns : Answered(c) => bytes[c] \in AnswersIn(request[c], OneFile)

\* The directories another connection's upload can leave for c to see: the
\* initial one, and for each upload request parsed on another connection,
\* the one with that file created empty and the one with the body stored.
SeenBy(c) ==
    {OneFile} \cup
    UNION {{insert(OneFile, DropFirst(request[d].path, 7), <<>>),
            insert(OneFile, DropFirst(request[d].path, 7), request[d].body)} :
            d \in {e \in Conns \ {c} : Parsed(e) /\ route_of(request[e]) = "file-upload"}}

\* C14 amended: the request a worker answers is parsed from the bytes of its
\* own connection only; its response is the one it gets alone unless it is
\* a GET /files/<name>, whose response is computed over the directory as
\* the uploads of the other connections have left it so far, including a
\* file another worker has created and not yet written.
C14_SharedOnlyThroughFiles ==
    \A c \in Conns :
        /\ Parsed(c) => request[c] = parse_request(said[c], TRUE).req
        /\ Answered(c) =>
              IF route_of(request[c]) = "file-content"
              THEN \E F \in SeenBy(c) : bytes[c] \in AnswersIn(request[c], F)
              ELSE bytes[c] \in AnswersIn(request[c], OneFile)

\* C14's case: one connection uploaded f and the other one's download of f
\* was answered with the uploaded bytes, not with the file as it was.
C14_Witness ==
    \E c, d \in Conns :
        /\ c # d
        /\ route_of(request[d]) = "file-upload"
        /\ route_of(request[c]) = "file-content"
        /\ Len(out[c]) = 1
        /\ BodyOf(out[c][1]) = BodyYo
        /\ OneFile[<<"f">>] = BodyHi

\* The request falls through every arm of the router but the last.
Unrouted(req) ==
    /\ req.path # PathRoot
    /\ req.path # PathUserAgent
    /\ ~starts_with(req.path, PathEcho)
    /\ ~(starts_with(req.path, PathFiles) /\ req.method \in {MethodGet, MethodPost})

\* C15: for every parsed request and whatever the file system does,
\* handle_request returns a Response: NotFound for a request no arm of the
\* router takes, InternalServerError when creating or writing the uploaded
\* file fails, Created with empty content when the upload succeeds; and the
\* worker, once it has a request, always goes on to the write with the
\* Response of handle_request, never out of the loop with an error.
C15_HandlersTotal ==
    /\ [](\A c \in Served :
             pc[c] = "handle" =>
                 \A fault \in faults_of(route_of(request[c])) :
                     LET r == handle_request(request[c], files, fault)
                         upload == /\ request[c].method = MethodPost
                                   /\ starts_with(request[c].path, PathFiles)
                                   /\ ~starts_with(request[c].path, PathEcho)
                     IN  /\ r.status \in HttpCode
                         /\ DOMAIN r = DOMAIN ResponseDefault
                         /\ Unrouted(request[c]) => r.status = "NotFound"
                         /\ (upload /\ fault \in {"create", "write"}) =>
                                r.status = "InternalServerError"
                         /\ (upload /\ fault = "none") =>
                                (r.status = "Created" /\ r.content = <<>>))
    /\ [][\A c \in Served :
             (pc[c] = "handle" /\ pc'[c] # "handle") =>
                 /\ pc'[c] = "write"
                 /\ err'[c] = err[c]
                 /\ routed'[c] \in {handle_request(request[c], files, fault) :
                                        fault \in Faults}]_vars

\* C15's case: a PUT on /files/f got NotFound from the router's last arm.
C15_Witness ==
    \E c \in Served :
        /\ pc[c] = "write"
        /\ request[c].method = MethodPut
        /\ request[c].path = PathFileF
        /\ routed[c].status = "NotFound"
        /\ routed[c].content = <<>>

\* The first line a client sent, without its line end.
FirstLine(b) == trim(SubSeq(b, 1, find(b, <<"\n">>)))

\* The tokens between the single spaces of that line.
Tokens(b) == split(FirstLine(b), SP)

\* C16 as stated: a non-blank start line yields a Request only if it
\* consists of exactly three tokens; with one token the parse fails with
\* MissingPath, with two with MissingVersion.
C16_ExactlyThreeTokens ==
    \A c \in Served :
        (FirstOnly(c) /\ FirstLine(said[c]) # <<>>) =>
            /\ Len(Tokens(said[c])) # 3 => ~Parsed(c)
            /\ Len(Tokens(said[c])) = 1 => err[c] = "MissingPath"
            /\ Len(Tokens(said[c])) = 2 => err[c] = "MissingVersion"

\* C16 amended: the start line is split on single spaces and the first
\* three parts are the method, the path and the version, whatever follows
\* them and whether or not they are empty; a line of one part fails with
\* MissingPath, one of two parts with MissingVersion, and a line of three
\* parts or more fails with neither; a blank line gives None; MissingMethod
\* is never returned.
C16_FirstThreeTokens ==
    \A c \in Served :
        /\ err[c] # "MissingMethod"
        /\ (FirstOnly(c) /\ FirstLine(said[c]) = <<>>) => log[c] = <<"None">>
        /\ (FirstOnly(c) /\ FirstLine(said[c]) # <<>>) =>
              LET toks == Tokens(said[c])
              IN  /\ Len(toks) = 1 => (log[c] = <<"Err">> /\ err[c] = "MissingPath")
                  /\ Len(toks) = 2 => (log[c] = <<"Err">> /\ err[c] = "MissingVersion")
                  /\ Len(toks) >= 3 =>
                        /\ err[c] \notin {"MissingPath", "MissingVersion"}
                        /\ Parsed(c) =>
                              /\ request[c].method = toks[1]
                              /\ request[c].path = toks[2]
                              /\ request[c].version = toks[3]
                  /\ (Len(toks) >= 3 /\ HeadComplete(said[c])
                         /\ unwrap_or(Declared(said[c]), 0) <= Len(BodyOf(said[c]))) =>
                        Parsed(c)

\* C16's case: "GET  / HTTP/1.1" has four parts, the second one empty; it is
\* returned as a request for the empty path under the version "/".
C16_Witness ==
    \E c \in Served :
        /\ Parsed(c)
        /\ FirstOnly(c)
        /\ Len(Tokens(said[c])) = 4
        /\ request[c].method = MethodGet
        /\ request[c].path = <<>>
        /\ request[c].version = PathRoot

\* ------------------------------------------------------------------------
\* The handlers and the middleware-owned fields (MsgSpec)
\* ------------------------------------------------------------------------

\* C17 as stated: the Response handle_request returns has no
\* content_encoding, no connection and the default version.
C17_HandlersLeaveFields ==
    \A c \in Served :
        Answered(c) =>
            /\ routed[c].content_encoding = <<>>
            /\ routed[c].connection = <<>>
            /\ routed[c].version = VerDefault

\* C17 amended: the Response handle_request returns has no content_encoding
\* and no connection; its version is the default, except in the router's
\* last arm (NotFound), which copies the request's version. The three
\* fields after the middlewares do not depend on what the handler left in
\* them: the version is the request's, the connection is the request's
\* connection header, the content_encoding is what the compression stage
\* chose for the request's accept-encoding header.
C17_MiddlewareOwnedFields ==
    \A c \in Served :
        Answered(c) =>
            /\ routed[c].content_encoding = <<>>
            /\ routed[c].connection = <<>>
            /\ routed[c].version =
                  (IF Unrouted(request[c]) THEN request[c].version ELSE VerDefault)
            /\ response[c].version = request[c].version
            /\ response[c].connection = get(request[c].headers, KeyConnection)
            /\ response[c].content_encoding =
                  (IF encfail[c] \/ get(request[c].headers, KeyAcceptEncoding) = <<>>
                   THEN <<>>
                   ELSE algorithm(get(request[c].headers, KeyAcceptEncoding)[1]))
            /\ response[c] =
                  handle_middlewares(request[c],
                                     [routed[c] EXCEPT !.version = VerDefault,
                                                       !.connection = <<>>,
                                                       !.content_encoding = <<>>],
                                     ~encfail[c])

\* C17's case: GET /nope HTTP/1.0 leaves the router with version HTTP/1.0,
\* not the default, in a NotFound Response.
C17_Witness ==
    \E c \in Served :
        /\ Answered(c)
        /\ sent.path = PathNope
        /\ sent.version = Ver10
        /\ routed[c].status = "NotFound"
        /\ routed[c].version = Ver10
        /\ VerDefault # Ver10

\* ------------------------------------------------------------------------
\* What a parse_request call takes from the stream (RawSpec)
\* ------------------------------------------------------------------------

\* The bytes of the first request in b: its head through the blank line and
\* its body.
RequestBytes(b, req) == BlankAt(b) + 3 + Len(req.body)

\* The bytes of c not yet given to a parse_request call that has returned.
Unparsed(c) == rbuf[c] \o wire[c]

\* C18: once the first parse_request call has returned a request, what is
\* left of the connection's byte stream is everything the client sent
\* behind that request; and when the connection has ended without an error
\* of the start line or of a header, every request the client sent on it
\* behind a persistent first one was returned by a later call and answered.
C18_ConsumesExactlyItsRequest ==
    \A c \in Served :
        (Parsed(c) /\ HeadComplete(said[c])) =>
            /\ FirstOnly(c) =>
                  Unparsed(c) = DropFirst(said[c], RequestBytes(said[c], request[c]))
            /\ (Ended(c) /\ log[c][1] = "Request" /\ out[c] # <<>>
                   /\ parse_request(said[c], TRUE).req.persistent
                   /\ DropFirst(said[c],
                                 RequestBytes(said[c], parse_request(said[c], TRUE).req))
                         = NextRequest) =>
                  (Returned(c) = 2 /\ Len(out[c]) = 2)

\* ------------------------------------------------------------------------
\* The announced connection directive and the loop (MsgSpec)
\* ------------------------------------------------------------------------

\* C19: when the worker has closed the connection after writing a
\* response, that response does not carry Connection: keep-alive.
C19_KeepAliveIsKept ==
    \A c \in Served :
        (pc[c] = "closed" /\ out[c] # <<>>) =>
            HeaderValues(Last(out[c]), NameConnection) # <<ValKeepAlive>>

\* ------------------------------------------------------------------------
\* Compression of an empty content (MsgSpec)
\* ------------------------------------------------------------------------

\* C20: when the handler returned an empty content and no encoder failed,
\* the response computed for the request has no body and no Content-Type,
\* Content-Length or Content-Encoding header, whatever accept-encoding the
\* request carries.
C20_EmptyBodyStaysEmpty ==
    \A c \in Served :
        (Answered(c) /\ routed[c].content = <<>> /\ ~encfail[c]) =>
            /\ BodyOf(bytes[c]) = <<>>
            /\ HeaderValues(bytes[c], HName(HdrContentType)) = <<>>
            /\ HeaderValues(bytes[c], HName(HdrContentLength)) = <<>>
            /\ HeaderValues(bytes[c], HName(HdrContentEncoding)) = <<>>

====
